---- MODULE Spec2Model ----
(***************************************************************************)
(* Room message / presence protocol of the classconnect chat clients.      *)
(*                                                                         *)
(* Four client variants live in the repository:                            *)
(*   "reconcile"  src/src/client/index.tsx 231-468  (= src/unnamed/part_001)*)
(*   "plain"      src/src/client/index.tsx 730-1126                         *)
(*   "dedupe"     src/unnamed/part_003                                      *)
(*   "simple"     src/unnamed/part_000            (= src/unnamed/part_002) *)
(* Every variant keeps a message log (messages) and a roster               *)
(* (participants) as React state and mutates them from its socket          *)
(* handler, its send function and its presence heartbeat.                  *)
(***************************************************************************)
EXTENDS Integers, Sequences, FiniteSets, TLC

(* ------------------------------ bounds -------------------------------- *)
MaxLog == 3                        \* cap on the growth of the log in the clients that can grow it without bound

(* --------------------------- program constants ------------------------ *)
ScanWindow == 40                   \* reconcile scans the 40 newest entries
PersistCap == 500                  \* messages.slice(-500) on persist

(* ------------------------------ input sets ---------------------------- *)
NoField == "undefined"             \* an absent string property
NoTime == -1                       \* an absent timestamp property
Name == "Alice"                    \* the local display name (cc:name)
Users == {"Alice", "Bob"}
Contents == {"hi", "yo"}
Roles == {"user", "system"}
Ids == {"X", "Y", "Z"}             \* ids nanoid can produce / the channel can carry
Instants == {0, 2, 20}             \* clock readings, in seconds
ClientId == "c1"                   \* the local session id (cc:clientId)
SessionIds == {"c1", "c2"}         \* presence session ids
Statuses == {"online", "offline"}
RawText == "<frame text>"          \* String(evt.data) of an inbound frame
Clients == {"reconcile", "plain", "dedupe", "simple"}
Rooms == {"general", "math"}       \* room ids the route /:room can carry

VARIABLES
    client,        \* which client variant is mounted
    messages,      \* React state: the message log
    participants,  \* React state: the roster
    pendingRef,    \* reconcile client: Map id -> payload awaiting an echo
    wire,          \* add envelopes handed to the channel, not yet relayed back
    usedIds,       \* ids already generated or seen (nanoid never repeats them)
    now,           \* the wall clock
    lsMessages,    \* localStorage cc:messages:<room>, per room
    lsParticipants,\* localStorage cc:participants:<room>, per room
    last,          \* the event handled last: [op, msg, echo, rule]
    room,          \* roomId, the room of the current route
    mounted,       \* whether the component is mounted (its effects have run)
    socket,        \* the room's socket: "connecting" or "open"
    base,          \* the length of the log the run starts with
    queued,        \* state updates the load effect scheduled, applied by the next render
    storage,       \* localStorage: "ok", "full" (setItem throws) or "denied" (every access throws)
    members        \* two reconciling clients of one room: [name, messages, pendingRef, inbox] each

vars == <<client, messages, participants, pendingRef, wire, usedIds, now, lsMessages, lsParticipants, last,
          room, mounted, socket, base, queued, storage, members>>

(* ------------------------------ envelopes ----------------------------- *)
\* A decoded JSON object; an absent property is NoField / NoTime / <<>>.
Env(type, id, content, user, role, created_at) ==
    [type |-> type, id |-> id, content |-> content, user |-> user,
     role |-> role, created_at |-> created_at,
     status |-> NoField, lastSeen |-> NoTime, participants |-> <<>>]

NoEnv == Env(NoField, NoField, NoField, NoField, NoField, NoTime)

\* { type: "presence", user, status, id, lastSeen }
PresenceEnv(user, status, id, lastSeen) ==
    [NoEnv EXCEPT !.type = "presence", !.user = user, !.status = status,
                  !.id = id, !.lastSeen = lastSeen]

\* { type: "participants", participants: [...] }
ParticipantsEnv(list) == [NoEnv EXCEPT !.type = "participants", !.participants = list]

\* A roster entry.
Participant(user, id, status, lastSeen) ==
    [user |-> user, id |-> id, status |-> status, lastSeen |-> lastSeen]

\* A log entry: the chat fields of an envelope plus the pending flag
\* (pending = FALSE also stands for an entry without the property, which
\* the code only ever tests for truthiness).
ChatEntry(type, id, content, user, role, created_at, pending) ==
    [type |-> type, id |-> id, content |-> content, user |-> user,
     role |-> role, created_at |-> created_at, pending |-> pending]

\* { ...msg, pending }: the envelope as a log entry.
entryOf(msg, pending) ==
    ChatEntry(msg.type, msg.id, msg.content, msg.user, msg.role, msg.created_at, pending)

\* Spread with the pending flag of the old entry kept.
Spread_keepPending(m, msg) ==
    ChatEntry(IF msg.type = NoField THEN m.type ELSE msg.type,
              IF msg.id = NoField THEN m.id ELSE msg.id,
              IF msg.content = NoField THEN m.content ELSE msg.content,
              IF msg.user = NoField THEN m.user ELSE msg.user,
              IF msg.role = NoField THEN m.role ELSE msg.role,
              IF msg.created_at = NoTime THEN m.created_at ELSE msg.created_at,
              m.pending)

\* Spread with the operands swapped, { ...msg, ...m, pending: false }:
\* properties present in the old entry win.
Spread_oldWins(m, msg) ==
    ChatEntry(IF m.type = NoField THEN msg.type ELSE m.type,
              IF m.id = NoField THEN msg.id ELSE m.id,
              IF m.content = NoField THEN msg.content ELSE m.content,
              IF m.user = NoField THEN msg.user ELSE m.user,
              IF m.role = NoField THEN msg.role ELSE m.role,
              IF m.created_at = NoTime THEN msg.created_at ELSE m.created_at,
              FALSE)

\* { ...m, ...msg, pending: false }: properties present in msg win.
Spread(m, msg) ==
    ChatEntry(IF msg.type = NoField THEN m.type ELSE msg.type,
              IF msg.id = NoField THEN m.id ELSE msg.id,
              IF msg.content = NoField THEN m.content ELSE msg.content,
              IF msg.user = NoField THEN m.user ELSE msg.user,
              IF msg.role = NoField THEN m.role ELSE msg.role,
              IF msg.created_at = NoTime THEN m.created_at ELSE msg.created_at,
              FALSE)

(* ------------------------------ helpers ------------------------------- *)
Max(a, b) == IF a >= b THEN a ELSE b

\* prev.findIndex((m) => m.id === id), 1-based; 0 stands for -1.
findIndex(prev, id) ==
    IF \E i \in 1..Len(prev) : prev[i].id = id
    THEN CHOOSE i \in 1..Len(prev) :
            prev[i].id = id /\ \A k \in 1..(i - 1) : prev[k].id # id
    ELSE 0

\* arr.slice(0, n): the oldest n entries instead of the newest.
sliceLast_oldest(arr, n) ==
    IF Len(arr) <= n THEN arr ELSE SubSeq(arr, 1, n)

\* arr.slice(-n)
sliceLast(arr, n) ==
    IF Len(arr) <= n THEN arr ELSE SubSeq(arr, Len(arr) - n + 1, Len(arr))

\* The scan with the pending test left out.
fuzzyIndex_anyEntry(prev, msg) ==
    LET lo == Max(1, Len(prev) - ScanWindow + 1)
        hit(j) == prev[j].user = msg.user /\ prev[j].content = msg.content
    IN IF \E j \in lo..Len(prev) : hit(j)
       THEN CHOOSE j \in lo..Len(prev) : hit(j) /\ \A k \in (j + 1)..Len(prev) : ~hit(k)
       ELSE 0

\* The scan with a 10 second recency test added.
fuzzyIndex_window10(prev, msg) ==
    LET lo == Max(1, Len(prev) - ScanWindow + 1)
        hit(j) == /\ prev[j].pending /\ prev[j].user = msg.user /\ prev[j].content = msg.content
                  /\ now - prev[j].created_at <= 10
    IN IF \E j \in lo..Len(prev) : hit(j)
       THEN CHOOSE j \in lo..Len(prev) : hit(j) /\ \A k \in (j + 1)..Len(prev) : ~hit(k)
       ELSE 0

\* The scan over the whole log instead of its ScanWindow newest entries.
fuzzyIndex_wholeLog(prev, msg) ==
    LET hit(j) == prev[j].pending /\ prev[j].user = msg.user /\ prev[j].content = msg.content
    IN IF \E j \in 1..Len(prev) : hit(j)
       THEN CHOOSE j \in 1..Len(prev) : hit(j) /\ \A k \in (j + 1)..Len(prev) : ~hit(k)
       ELSE 0

\* The scan with the content test left out.
fuzzyIndex_userOnly(prev, msg) ==
    LET lo == Max(1, Len(prev) - ScanWindow + 1)
        hit(j) == prev[j].pending /\ prev[j].user = msg.user
    IN IF \E j \in lo..Len(prev) : hit(j)
       THEN CHOOSE j \in lo..Len(prev) : hit(j) /\ \A k \in (j + 1)..Len(prev) : ~hit(k)
       ELSE 0

\* The backwards scan of reconcile: the newest pending entry among the
\* ScanWindow newest entries with the envelope's user and content; 0 if none.
fuzzyIndex(prev, msg) ==
    LET lo == Max(1, Len(prev) - ScanWindow + 1)
        hit(j) == prev[j].pending /\ prev[j].user = msg.user /\ prev[j].content = msg.content
    IN IF \E j \in lo..Len(prev) : hit(j)
       THEN CHOOSE j \in lo..Len(prev) : hit(j) /\ \A k \in (j + 1)..Len(prev) : ~hit(k)
       ELSE 0

\* Which rule of reconcile settles msg against prev.
reconcileRule(prev, msg) ==
    IF findIndex(prev, msg.id) # 0 THEN "exact"
    ELSE IF fuzzyIndex(prev, msg) # 0 THEN "fuzzy"
    ELSE "append"

\* Whether the entry reconcile settles msg on is pending beforehand.
settledPending(prev, msg) ==
    LET i == findIndex(prev, msg.id)
        j == fuzzyIndex(prev, msg)
    IN IF i # 0 THEN prev[i].pending ELSE j # 0

\* reconcile with the fuzzy match keeping the old entry's fields.
reconcile_keepOld(prev, msg) ==
    LET i == findIndex(prev, msg.id)
        j == fuzzyIndex(prev, msg)
    IN IF i # 0 THEN [prev EXCEPT ![i] = Spread(prev[i], msg)]
       ELSE IF j # 0 THEN [prev EXCEPT ![j] = [prev[j] EXCEPT !.pending = FALSE]]
       ELSE Append(prev, entryOf(msg, FALSE))

\* reconcile with the exact-id lookup left out.
reconcile_noLookup(prev, msg) ==
    LET j == fuzzyIndex(prev, msg)
    IN IF j # 0 THEN [prev EXCEPT ![j] = Spread(prev[j], msg)]
       ELSE Append(prev, entryOf(msg, FALSE))

\* reconcile appending an unmatched add as a pending entry.
reconcile_appendPending(prev, msg) ==
    LET i == findIndex(prev, msg.id)
        j == fuzzyIndex(prev, msg)
    IN IF i # 0 THEN [prev EXCEPT ![i] = Spread(prev[i], msg)]
       ELSE IF j # 0 THEN [prev EXCEPT ![j] = Spread(prev[j], msg)]
       ELSE Append(prev, entryOf(msg, TRUE))

\* reconcile putting an unmatched add in front of the log.
reconcile_prepend(prev, msg) ==
    LET i == findIndex(prev, msg.id)
        j == fuzzyIndex(prev, msg)
    IN IF i # 0 THEN [prev EXCEPT ![i] = Spread(prev[i], msg)]
       ELSE IF j # 0 THEN [prev EXCEPT ![j] = Spread(prev[j], msg)]
       ELSE <<entryOf(msg, FALSE)>> \o prev

\* The updater passed to setMessages by reconcile.
reconcile(prev, msg) ==
    LET i == findIndex(prev, msg.id)
        j == fuzzyIndex(prev, msg)
    IN IF i # 0 THEN [prev EXCEPT ![i] = Spread(prev[i], msg)]
       ELSE IF j # 0 THEN [prev EXCEPT ![j] = Spread(prev[j], msg)]
       ELSE Append(prev, entryOf(msg, FALSE))

\* Map.delete
mapDelete(map, key) == [k \in (DOMAIN map) \ {key} |-> map[k]]

\* Map.set
mapSet(map, key, val) == [k \in (DOMAIN map) \cup {key} |-> IF k = key THEN val ELSE map[k]]

\* The pendingRef.current.delete calls reconcile makes.
reconcilePending(prev, map, msg) ==
    LET i == findIndex(prev, msg.id)
        j == fuzzyIndex(prev, msg)
    IN IF i # 0 THEN mapDelete(map, msg.id)
       ELSE IF j # 0 THEN mapDelete(map, prev[j].id)
       ELSE mapDelete(map, msg.id)

(* ------------------------------ the roster ---------------------------- *)
\* prev.findIndex((x) => x.user === user), 1-based; 0 stands for -1.
findUser(prev, user) ==
    IF \E i \in 1..Len(prev) : prev[i].user = user
    THEN CHOOSE i \in 1..Len(prev) :
            prev[i].user = user /\ \A k \in 1..(i - 1) : prev[k].user # user
    ELSE 0

\* { ...old, ...p }: user, id, status and lastSeen are all own properties of
\* p (possibly undefined), so each of them overrides the old value.
spreadParticipant(old, p) == Participant(p.user, p.id, p.status, p.lastSeen)

\* The updater with the lookup left out.
upsert_append(prev, p) == Append(prev, p)

\* The updater looking the entry up by session id instead of user name.
upsert_keyById(prev, p) ==
    LET idx == findUser(prev, p.id)
    IN IF idx = 0 THEN Append(prev, p)
       ELSE [prev EXCEPT ![idx] = spreadParticipant(prev[idx], p)]

\* The updater passed to setParticipants for one presence.
upsert(prev, p) ==
    LET idx == findUser(prev, p.user)
    IN IF idx = 0 THEN Append(prev, p)
       ELSE [prev EXCEPT ![idx] = spreadParticipant(prev[idx], p)]

\* p of the reconciling client: id: data.id ?? data.user, status: data.status ?? "online".
presenceOf(data) ==
    Participant(data.user,
                IF data.id = NoField THEN data.user ELSE data.id,
                IF data.status = NoField THEN "online" ELSE data.status,
                data.lastSeen)

\* p of the plain and dedupe clients: status: msg.status || "online", id: msg.id.
presenceOfPlain(msg) ==
    Participant(msg.user, msg.id,
                IF msg.status = NoField THEN "online" ELSE msg.status,
                msg.lastSeen)

\* list.map((p) => ({ user, id, status: p.status ?? "online", lastSeen }))
normalize(list) ==
    [k \in 1..Len(list) |->
        Participant(list[k].user, list[k].id,
                    IF list[k].status = NoField THEN "online" ELSE list[k].status,
                    list[k].lastSeen)]

(* ------------------------ the reconciling client ---------------------- *)
\* Frames: json = "invalid" (JSON.parse throws), "value" (parses to null, a
\* number or a string) or "object" (parses to the object data).

\* onMessage with the type test in front of reconcile left out.
onMessageLog_noTypeTest(prev, json, data) ==
    IF json = "object" /\ data.type \notin {"presence", "participants"}
    THEN reconcile(prev, data) ELSE prev

\* The log after onMessage has handled a frame.
onMessageLog(prev, json, data) ==
    IF json = "object" /\ data.type = "add" THEN reconcile(prev, data) ELSE prev

\* pendingRef after onMessage has handled a frame.
onMessagePending(prev, map, json, data) ==
    IF json = "object" /\ data.type = "add" THEN reconcilePending(prev, map, data) ELSE map

\* onMessage with the snapshot added to the roster instead of replacing it.
onMessageRoster_concat(prev, json, data) ==
    IF json # "object" THEN prev
    ELSE IF data.type = "presence" THEN upsert(prev, presenceOf(data))
    ELSE IF data.type = "participants" THEN prev \o normalize(data.participants)
    ELSE prev

\* The roster after onMessage has handled a frame.
onMessageRoster(prev, json, data) ==
    IF json # "object" THEN prev
    ELSE IF data.type = "presence" THEN upsert(prev, presenceOf(data))
    ELSE IF data.type = "participants" THEN normalize(data.participants)
    ELSE prev

\* How onMessage ends: JSON.parse throws inside the try block and the catch
\* clause logs it ("caught"); a null, number or string returns at the guard
\* ("returned"); an object runs the branch of its type or none ("ignored").
onMessageOutcome(json, data) ==
    IF json = "invalid" THEN "caught"
    ELSE IF json = "value" THEN "returned"
    ELSE IF data.type \in {"presence", "participants", "add"} THEN data.type
    ELSE "ignored"

(* --------------------------- the plain client ------------------------- *)
\* The replacement built as a copy of the whole envelope, { ...msg }.
newMsgOf_spread(msg) == entryOf(msg, FALSE)

\* newMsg / the update replacement: { id, content, user, role } only.
newMsgOf(msg) == ChatEntry(NoField, msg.id, msg.content, msg.user, msg.role, NoTime, FALSE)

\* `sys-${Date.now()}`
sysId(t) == IF t = 0 THEN "sys-0" ELSE IF t = 2 THEN "sys-2" ELSE "sys-20"

\* prev.map((m) => (m.id === msg.id ? replacement : m))
mapReplace(prev, msg) ==
    [k \in 1..Len(prev) |-> IF prev[k].id = msg.id THEN newMsgOf(msg) ELSE prev[k]]

\* The log after handleIncoming (index.tsx 761-821) has handled a frame.
handleIncomingLog(prev, json, msg, t) ==
    IF json # "object" THEN prev
    ELSE IF msg.type = "add" THEN Append(prev, newMsgOf(msg))
    ELSE IF msg.type = "update" THEN mapReplace(prev, msg)
    ELSE IF msg.type \in {"presence", "participants"} THEN prev
    ELSE Append(prev, ChatEntry(NoField, sysId(t), RawText, "system", "system", NoTime, FALSE))

\* The roster after handleIncoming has handled a frame (same in part_003).
handleIncomingRoster(prev, json, msg) ==
    IF json # "object" THEN prev
    ELSE IF msg.type = "presence" THEN upsert(prev, presenceOfPlain(msg))
    ELSE IF msg.type = "participants" THEN normalize(msg.participants)
    ELSE prev

(* --------------------------- the dedupe client ------------------------ *)
\* addMessage with the id test left out.
addMessage_noDedupe(prev, m) == IF m.id = NoField THEN prev ELSE Append(prev, m)

\* addMessage: if (!m || !m.id) return; append unless the id is in the log.
addMessage(prev, m) ==
    IF m.id = NoField THEN prev
    ELSE IF \E k \in 1..Len(prev) : prev[k].id = m.id THEN prev
    ELSE Append(prev, m)

\* updateMessage that inserts the entry when no id matches.
updateMessage_upsert(prev, m) ==
    IF \E k \in 1..Len(prev) : prev[k].id = m.id
    THEN [k \in 1..Len(prev) |-> IF prev[k].id = m.id THEN m ELSE prev[k]]
    ELSE Append(prev, m)

\* updateMessage: prev.map((x) => (x.id === m.id ? m : x))
updateMessage(prev, m) ==
    [k \in 1..Len(prev) |-> IF prev[k].id = m.id THEN m ELSE prev[k]]

\* The part_003 handler with the fallback branch of index.tsx 808-815 kept.
handleIncomingLogDedupe_fallback(prev, json, msg) ==
    IF json # "object" THEN prev
    ELSE IF msg.type = "add" THEN addMessage(prev, newMsgOf(msg))
    ELSE IF msg.type = "update" THEN updateMessage(prev, newMsgOf(msg))
    ELSE IF msg.type \in {"presence", "participants"} THEN prev
    ELSE Append(prev, ChatEntry(NoField, "sys-0", RawText, "system", "system", NoTime, FALSE))

\* The log after handleIncoming (part_003) has handled a frame.
handleIncomingLogDedupe(prev, json, msg) ==
    IF json # "object" THEN prev
    ELSE IF msg.type = "add" THEN addMessage(prev, newMsgOf(msg))
    ELSE IF msg.type = "update" THEN updateMessage(prev, newMsgOf(msg))
    ELSE prev

(* --------------------------- the simple client ------------------------ *)
\* The initial sync of the room: a payload of another type than add or
\* presence that carries the server's message list.
SyncEnv(list) ==
    [type |-> "all", messages |-> list, participants |-> <<>>, id |-> NoField, content |-> NoField,
     user |-> NoField, role |-> NoField, created_at |-> NoTime, status |-> NoField,
     lastSeen |-> NoTime]

\* Array.isArray(msg.messages)
hasMessages(msg) == "messages" \in DOMAIN msg

\* The log after onMessage (part_000) has handled a decoded object: an add
\* is appended as it came, a sync replaces the log.
onMessageLogSimple(prev, msg) ==
    IF msg.type = "presence" THEN prev
    ELSE IF msg.type = "add" THEN Append(prev, entryOf(msg, FALSE))
    ELSE IF hasMessages(msg) THEN msg.messages
    ELSE prev

(* ---------------------------- persistence ----------------------------- *)
\* A stored text JSON.parse throws on.
Corrupt == <<[corrupt |-> TRUE]>>

\* No state update is waiting for a render.
NoUpdate == [set |-> FALSE, messages |-> <<>>, participants |-> <<>>]

\* try { localStorage.setItem(key, JSON.stringify(val)) } catch {}: a write
\* that throws is swallowed and leaves the stored value as it was.
setItem(st, store, key, val) == IF st = "ok" THEN [store EXCEPT ![key] = val] ELSE store

\* What the persistence effects leave under cc:messages:<room>.
persistMessages(c, log, old) ==
    IF c \in {"reconcile", "plain"} THEN sliceLast(log, PersistCap)
    ELSE IF c = "dedupe" THEN log
    ELSE old

\* What the persistence effects leave under cc:participants:<room>.
persistParticipants(c, roster, old) == IF c = "simple" THEN old ELSE roster

(* ------------------------- the members of a room ---------------------- *)
MemberIds == {"a", "b"}

\* One reconciling client of the room: its display name, its log, its
\* pendingRef and the frames the relay has sent it that it has not handled.
Member(name) == [name |-> name, messages |-> <<>>, pendingRef |-> <<>>, inbox |-> <<>>]

\* Only the local client is looked at.
NoMembers == [m \in MemberIds |-> Member(Name)]

(* ------------------------------- Init --------------------------------- *)
\* The record of the event handled last: the operation, the inbound frame or
\* outbound payload, whether the frame was a relay of a local send, the rule
\* reconcile settled it by, whether the entry it settled on was pending and
\* whether the same frame was handled just before.
Event(op, json, msg, echo, rule, wasPending) ==
    [op |-> op, json |-> json, msg |-> msg, echo |-> echo, rule |-> rule,
     wasPending |-> wasPending, again |-> FALSE]

\* An inbound frame, flagged when the frame handled just before was the same.
Inbound(ev) ==
    [ev EXCEPT !.again = last.op = "receive" /\ last.json = ev.json /\ last.msg = ev.msg]

NoEvent == Event("init", "none", NoEnv, FALSE, "none", FALSE)

InitCommon ==
    /\ messages = <<>>
    /\ participants = <<>>
    /\ pendingRef = <<>>
    /\ wire = {}
    /\ usedIds = {}
    /\ now = 0
    /\ lsMessages = [r \in Rooms |-> <<>>]
    /\ lsParticipants = [r \in Rooms |-> <<>>]
    /\ last = NoEvent
    /\ room = "general"
    /\ mounted = TRUE
    /\ socket = "open"
    /\ base = 0
    /\ queued = NoUpdate
    /\ storage = "ok"
    /\ members = NoMembers

Init == client \in Clients /\ InitCommon

InitReconcile == client = "reconcile" /\ InitCommon

(* ------------------------------ actions ------------------------------- *)
\* The payload / chatMessage a local send builds.
payloadOf(c, id, text, t) ==
    IF c = "reconcile" THEN Env("add", id, text, Name, "user", t)
    ELSE Env("add", id, text, Name, "user", NoTime)

\* The optimistic entry appended without the pending flag.
optimistic_notPending(c, prev, payload) ==
    IF c = "reconcile" THEN Append(prev, entryOf(payload, FALSE))
    ELSE IF c = "dedupe" THEN addMessage(prev, newMsgOf(payload))
    ELSE Append(prev, newMsgOf(payload))

\* The optimistic log entry of a local send.
optimistic(c, prev, payload) ==
    IF c = "reconcile" THEN Append(prev, entryOf(payload, TRUE))
    ELSE IF c = "dedupe" THEN addMessage(prev, newMsgOf(payload))
    ELSE Append(prev, newMsgOf(payload))

\* send / sendChat: build the message with a fresh id, append the optimistic
\* entry, hand the add envelope to the socket (which may fail silently); the
\* reconciling client also remembers the payload in pendingRef.
send(text, id, delivered) ==
    LET payload == payloadOf(client, id, text, now)
    IN /\ mounted
       /\ id \notin usedIds
       /\ Len(messages) < base + MaxLog
       /\ usedIds' = usedIds \cup {id}
       /\ pendingRef' = IF client = "reconcile" THEN mapSet(pendingRef, id, payload) ELSE pendingRef
       /\ wire' = IF delivered THEN wire \cup {payload} ELSE wire
       /\ messages' = optimistic(client, messages, payload)
       /\ lsMessages' = setItem(storage, lsMessages, room, persistMessages(client, messages', lsMessages[room]))
       /\ last' = Event("send", "none", payload, FALSE, "none", FALSE)
       /\ UNCHANGED <<members, base, queued, storage, client, participants, now, lsParticipants, room, mounted, socket>>

\* The socket handler of the mounted client, applied to one inbound frame.
inboundLog(c, prev, json, data, t) ==
    IF c = "reconcile" THEN onMessageLog(prev, json, data)
    ELSE IF c = "plain" THEN handleIncomingLog(prev, json, data, t)
    ELSE IF c = "dedupe" THEN handleIncomingLogDedupe(prev, json, data)
    ELSE onMessageLogSimple(prev, data)

inboundRoster(c, prev, json, data) ==
    IF c = "reconcile" THEN onMessageRoster(prev, json, data)
    ELSE IF c \in {"plain", "dedupe"} THEN handleIncomingRoster(prev, json, data)
    ELSE prev

receive(json, data, echo) ==
    /\ mounted /\ socket = "open"
    /\ Len(inboundLog(client, messages, json, data, now)) <= base + MaxLog
    /\ messages' = inboundLog(client, messages, json, data, now)
    /\ participants' = inboundRoster(client, participants, json, data)
    /\ pendingRef' = IF client = "reconcile"
                     THEN onMessagePending(messages, pendingRef, json, data)
                     ELSE pendingRef
    /\ wire' = IF echo THEN wire \ {data} ELSE wire
    /\ usedIds' = IF data.type \in {"add", "update"} THEN usedIds \cup {data.id} ELSE usedIds
    /\ lsMessages' = setItem(storage, lsMessages, room, persistMessages(client, messages', lsMessages[room]))
    /\ lsParticipants' = setItem(storage, lsParticipants, room, persistParticipants(client, participants', lsParticipants[room]))
    /\ last' = IF client = "reconcile" /\ json = "object" /\ data.type = "add"
               THEN Inbound(Event("receive", json, data, echo, reconcileRule(messages, data),
                                  settledPending(messages, data)))
               ELSE Inbound(Event("receive", json, data, echo, "none", FALSE))
    /\ UNCHANGED <<members, base, queued, storage, client, now, room, mounted, socket>>

\* sendPresence(status): emit the presence envelope and upsert the local
\* user's roster entry at once.
sendPresence(status, id) ==
    /\ mounted
    /\ client \in {"reconcile", "plain", "dedupe"}
    /\ participants' = upsert(participants, Participant(Name, id, status, now))
    /\ lsParticipants' = setItem(storage, lsParticipants, room, persistParticipants(client, participants', lsParticipants[room]))
    /\ last' = Event("presence", "none", PresenceEnv(Name, status, id, now), FALSE, "none", FALSE)
    /\ UNCHANGED <<members, base, queued, storage, client, messages, pendingRef, wire, usedIds, now, lsMessages, room, mounted, socket>>

\* JSON.parse(localStorage.getItem(key)) of what JSON.stringify stored: the
\* modelled properties survive the round trip (an undefined property is
\* dropped and reads back as absent); nothing stored reads as the empty list.
load(stored) == stored

\* The load effect on one key: try { raw = getItem(key); set(raw ?
\* JSON.parse(raw) : []) } catch { set([]) }. A read that throws and a text
\* that does not parse both give the empty list.
readStored_ignoreThrow(st, store, key) ==
    IF store[key] = Corrupt THEN <<>> ELSE load(store[key])

readStored(st, store, key) ==
    IF st = "denied" \/ store[key] = Corrupt THEN <<>> ELSE load(store[key])

\* The envelopes in the resend outbox.
outbox(map) == {map[k] : k \in DOMAIN map}

\* The reconciling client: the socket of the room opens. onOpen sends an
\* online presence and every payload in pendingRef; the roster is not touched.
onOpen ==
    /\ mounted /\ client = "reconcile" /\ socket = "connecting"
    /\ socket' = "open"
    /\ wire' = wire \cup outbox(pendingRef)
    /\ last' = Event("open", "none", PresenceEnv(Name, "online", ClientId, now), FALSE, "none", FALSE)
    /\ UNCHANGED <<members, base, queued, storage, client, messages, participants, pendingRef, usedIds, now,
                   lsMessages, lsParticipants, room, mounted>>

\* The connection drops; the socket reconnects on its own.
onClose ==
    /\ mounted /\ socket = "open"
    /\ socket' = "connecting"
    /\ last' = Event("close", "none", NoEnv, FALSE, "none", FALSE)
    /\ UNCHANGED <<members, base, queued, storage, client, messages, participants, pendingRef, wire, usedIds, now,
                   lsMessages, lsParticipants, room, mounted>>

\* The reconciling client: the route changes to room r, followed through to
\* the render that applies what the load effect read. The load effect (deps
\* [roomId]) reads the stored log and roster of r, the persist effects store
\* them back, and the socket hook connects to r; the heartbeat effect (deps
\* [name, clientId]) does not run again, so nothing is emitted, and
\* pendingRef is kept. What the socket of the room left still carries is not
\* delivered to this client.
goto(r) ==
    /\ mounted /\ client = "reconcile" /\ r # room
    /\ room' = r
    /\ messages' = readStored(storage, lsMessages, r)
    /\ participants' = readStored(storage, lsParticipants, r)
    /\ lsMessages' = setItem(storage, lsMessages, r, persistMessages(client, messages', lsMessages[r]))
    /\ lsParticipants' = setItem(storage, lsParticipants, r, persistParticipants(client, participants', lsParticipants[r]))
    /\ socket' = "connecting"
    /\ wire' = {}
    /\ last' = Event("goto", "none", NoEnv, FALSE, "none", FALSE)
    /\ UNCHANGED <<members, base, queued, storage, client, pendingRef, usedIds, now, mounted>>

\* The same route change, one commit at a time. This is the commit of the
\* render with the new roomId: messages and participants are still those of
\* the room left. Its effects run in the order they are declared: the load
\* effect reads the keys of r and schedules the two state updates, then the
\* persist effects (deps [messages, roomId] and [participants, roomId]) run
\* because roomId changed and write the current state under the keys of r.
navigate(r) ==
    /\ mounted /\ client = "reconcile" /\ r # room /\ ~queued.set
    /\ room' = r
    /\ queued' = [set |-> TRUE,
                  messages |-> readStored(storage, lsMessages, r),
                  participants |-> readStored(storage, lsParticipants, r)]
    /\ lsMessages' = setItem(storage, lsMessages, r, persistMessages(client, messages, lsMessages[r]))
    /\ lsParticipants' = setItem(storage, lsParticipants, r, persistParticipants(client, participants, lsParticipants[r]))
    /\ socket' = "connecting"
    /\ wire' = {}
    /\ last' = Event("navigate", "none", NoEnv, FALSE, "none", FALSE)
    /\ UNCHANGED <<members, base, storage, client, messages, participants, pendingRef, usedIds, now, mounted>>

\* The render the scheduled updates cause: the state becomes what the load
\* effect read and the persist effects store it.
render ==
    /\ mounted /\ queued.set
    /\ messages' = queued.messages
    /\ participants' = queued.participants
    /\ queued' = NoUpdate
    /\ lsMessages' = setItem(storage, lsMessages, room, persistMessages(client, messages', lsMessages[room]))
    /\ lsParticipants' = setItem(storage, lsParticipants, room, persistParticipants(client, participants', lsParticipants[room]))
    /\ last' = Event("render", "none", NoEnv, FALSE, "none", FALSE)
    /\ UNCHANGED <<members, base, storage, client, pendingRef, wire, usedIds, now, room, mounted, socket>>

\* The reconciling client unmounts: the cleanup of the heartbeat effect
\* clears the timer and sends an offline presence straight to the socket,
\* without sendPresence.
unmount ==
    /\ mounted /\ client = "reconcile"
    /\ mounted' = FALSE
    /\ socket' = "connecting"
    /\ wire' = {}
    /\ last' = Event("unmount", "none", PresenceEnv(Name, "offline", ClientId, now), FALSE, "none", FALSE)
    /\ UNCHANGED <<members, base, queued, storage, client, messages, participants, pendingRef, usedIds, now,
                   lsMessages, lsParticipants, room>>

\* The reconciling client mounts on room r: fresh state and a fresh
\* pendingRef, the load effect reads the stored log and roster of r, the
\* heartbeat effect calls sendPresence("online") and starts the timer.
mount(r) ==
    /\ ~mounted /\ client = "reconcile"
    /\ mounted' = TRUE
    /\ room' = r
    /\ socket' = "connecting"
    /\ messages' = readStored(storage, lsMessages, r)
    /\ pendingRef' = <<>>
    /\ participants' = upsert(readStored(storage, lsParticipants, r), Participant(Name, ClientId, "online", now))
    /\ lsMessages' = setItem(storage, lsMessages, r, persistMessages(client, messages', lsMessages[r]))
    /\ lsParticipants' = setItem(storage, lsParticipants, r, persistParticipants(client, participants', lsParticipants[r]))
    /\ last' = Event("mount", "none", PresenceEnv(Name, "online", ClientId, now), FALSE, "none", FALSE)
    /\ UNCHANGED <<members, base, queued, storage, client, wire, usedIds, now>>

\* Time passes.
Tick ==
    /\ \E t \in Instants : t > now /\ now' = t
    /\ last' = Event("tick", "none", NoEnv, FALSE, "none", FALSE)
    /\ UNCHANGED <<members, base, queued, storage, client, messages, participants, pendingRef, wire, usedIds,
                   lsMessages, lsParticipants, room, mounted, socket>>

(* ------------------------------ inputs -------------------------------- *)
\* Add / update envelopes as the channel can carry them.
ChatEnvelopes(types, ids, contents, users, roles) ==
    {Env(ty, id, c, u, r, NoTime) :
        ty \in types, id \in ids, c \in contents, u \in users, r \in roles}

\* The channel relays an envelope of the local client back to it.
Echo == \E msg \in wire : receive("object", msg, TRUE)

\* The heartbeat timer or the unload listener fires.
Heartbeat == \E st \in Statuses : sendPresence(st, ClientId)

(* ------------------- the reconciling client, its log ------------------- *)
\* The channel is the environment here: Deliver draws whatever it may relay,
\* so the envelopes in flight are not tracked.
Send == \E text \in Contents, id \in Ids : send(text, id, FALSE)

\* Adds under the local name with every content and role (they can hit a
\* pending entry by id or by user and content) and adds of another member.
ReconcileAdds ==
    ChatEnvelopes({"add"}, Ids, Contents, {Name}, Roles)
        \cup ChatEnvelopes({"add"}, Ids, {"hi"}, Users \ {Name}, {"user"})

Deliver == \E msg \in ReconcileAdds : receive("object", msg, FALSE)

NextReconcile == Send \/ Deliver

SpecReconcile == InitReconcile /\ [][NextReconcile]_vars

(* ---------------- the reconciling client, with the clock --------------- *)
\* Adds under the local name: the ones the fuzzy rule can act on.
DeliverUser == \E msg \in ChatEnvelopes({"add"}, Ids, Contents, {Name}, {"user"}) : receive("object", msg, FALSE)

NextClock == Send \/ DeliverUser \/ Tick

SpecClock == InitReconcile /\ [][NextClock]_vars

(* ------------ the reconciling client, frames it cannot use ------------- *)
\* Objects without a type property: chat fields that would settle a pending
\* entry if they were read as an add, and presence fields.
TypelessObjects ==
    {Env(NoField, id, "hi", Name, "user", NoTime) : id \in Ids}
        \cup {[NoEnv EXCEPT !.user = "Bob", !.status = "online"]}

\* Text that is not JSON, or JSON that is not an object.
DeliverNonObject == \E json \in {"invalid", "value"} : receive(json, NoEnv, FALSE)

DeliverTypeless == \E data \in TypelessObjects : receive("object", data, FALSE)

DeliverHi == \E msg \in ChatEnvelopes({"add"}, Ids, {"hi"}, {Name}, {"user"}) : receive("object", msg, FALSE)

NextFrames == Send \/ DeliverHi \/ DeliverNonObject \/ DeliverTypeless \/ Heartbeat

SpecFrames == InitReconcile /\ [][NextFrames]_vars

(* ------------- the reconciling client, a frame applied twice ----------- *)
\* Adds as the channel carries them, with the id the sender gave, another
\* id, or no id property at all.
RepeatAdds == ChatEnvelopes({"add"}, Ids \cup {NoField}, {"hi"}, Users, {"user"})

SendText == \E id \in Ids : send("hi", id, FALSE)

DeliverRepeat == \E msg \in RepeatAdds : receive("object", msg, FALSE)

NextRepeat == SendText \/ DeliverRepeat

SpecRepeat == InitReconcile /\ [][NextRepeat]_vars

(* ------------- the reconciling client, a session with sends ----------- *)
\* The socket accepts the envelope or not (not open, or send throws).
SendAny == \E id \in Ids, delivered \in BOOLEAN : send("hi", id, delivered)

\* Adds under the local name: one with the id or the content of a local
\* send, one with neither.
OwnAdds == {Env("add", "X", "hi", Name, "user", NoTime), Env("add", "Z", "yo", Name, "user", NoTime)}

DeliverOwn == \E msg \in OwnAdds : receive("object", msg, FALSE)

NextSession == SendAny \/ Echo \/ DeliverOwn

SpecSession == InitReconcile /\ [][NextSession]_vars

(* ------- the reconciling client, sends the socket does not take -------- *)
\* socketRef.current?.send throws or the socket is not there: the envelope
\* reaches the channel only if a later onOpen sends it again.
SendFailed == \E id \in {"X", "Y"} : send("hi", id, FALSE)

HeartbeatTick == sendPresence("online", ClientId)

Goto == \E r \in Rooms : goto(r)

Mount == \E r \in Rooms : mount(r)

NextOutage ==
    SendFailed \/ Echo \/ DeliverOwn \/ HeartbeatTick \/ onClose \/ onOpen \/ Goto
        \/ unmount \/ Mount

SpecOutage == InitReconcile /\ [][NextOutage]_vars

(* ------------- the reconciling client, presence over its life --------- *)
\* The page before AppInner is mounted: nothing stored, no socket.
InitLoaded ==
    /\ client = "reconcile"
    /\ messages = <<>>
    /\ participants = <<>>
    /\ pendingRef = <<>>
    /\ wire = {}
    /\ usedIds = {}
    /\ now = 0
    /\ lsMessages = [r \in Rooms |-> <<>>]
    /\ lsParticipants = [r \in Rooms |-> <<>>]
    /\ last = NoEvent
    /\ room = "general"
    /\ mounted = FALSE
    /\ socket = "connecting"
    /\ base = 0
    /\ queued = NoUpdate
    /\ storage = "ok"
    /\ members = NoMembers

\* The beforeunload listener.
onUnload == sendPresence("offline", ClientId)

\* What the channel tells about the members: a presence of another member,
\* a presence under the local name, snapshots with and without the local user.
DeliverMember ==
    \E data \in {PresenceEnv("Bob", "online", "c2", NoTime),
                  PresenceEnv(Name, "offline", ClientId, NoTime),
                  ParticipantsEnv(<<>>),
                  ParticipantsEnv(<<Participant("Bob", "c2", "online", NoTime),
                                    Participant(Name, ClientId, "online", NoTime)>>)} :
        receive("object", data, FALSE)

NextPresence ==
    Mount \/ unmount \/ onOpen \/ onClose \/ Goto \/ HeartbeatTick \/ onUnload
        \/ DeliverMember \/ Tick

SpecPresence == InitLoaded /\ [][NextPresence]_vars

(* ------------- the reconciling client, moving between rooms ---------- *)
\* The render a route change scheduled comes before any further event.
Settled(A) == ~queued.set /\ A

Navigate == \E r \in Rooms : navigate(r)

NextRooms ==
    Settled(SendFailed) \/ Settled(DeliverOwn) \/ Settled(HeartbeatTick) \/ Settled(onOpen)
        \/ Navigate \/ render

SpecRooms == InitReconcile /\ [][NextRooms]_vars

(* ------- the reconciling client, a channel that opens and relays ------ *)
\* The add envelopes the local sends of this run build.
SentPayloads == {payloadOf("reconcile", id, "hi", 0) : id \in {"X", "Y"}}

\* The socket takes the envelope when it is open (socketRef.current?.send).
SendTwo == \E id \in {"X", "Y"} : send("hi", id, socket = "open")

\* The channel relays msg back to the client that handed it over.
Relay(msg) == msg \in wire /\ receive("object", msg, TRUE)

RelayAny == \E msg \in SentPayloads : Relay(msg)

NextChannel == SendTwo \/ RelayAny \/ onOpen \/ Goto

\* The socket of the current room opens in the end, and the channel relays
\* every add it was given.
FairChannel == WF_vars(onOpen) /\ \A msg \in SentPayloads : WF_vars(Relay(msg))

SpecChannel == InitReconcile /\ [][NextChannel]_vars /\ FairChannel

(* ------- the reconciling client, a member with the same name --------- *)
\* Adds another client of the room sent under the display name the local
\* user has as well (the names are drawn from one short list): ids the local
\* client never generated.
NamesakeAdds == ChatEnvelopes({"add"}, {"Z"}, Contents, {Name}, {"user"})

DeliverNamesake == \E msg \in NamesakeAdds : msg.id \notin usedIds /\ receive("object", msg, FALSE)

NextNamesake == SendAny \/ RelayAny \/ DeliverNamesake \/ onClose \/ onOpen

SpecNamesake == InitReconcile /\ [][NextNamesake]_vars

(* --------------- two reconciling clients over one relay -------------- *)
\* Two clients that stay connected to the room; the second has the name of
\* the first or another one.
InitMembers ==
    /\ InitReconcile
    /\ \E n \in Users : members = [m \in MemberIds |-> Member(IF m = "a" THEN Name ELSE n)]

\* send in member m (index.tsx 380-383): the payload goes to pendingRef and
\* to the open socket, the pending entry to the log. The relay puts the
\* envelope behind what it has already sent to every member, the sender
\* included.
memberSend(m, text, id) ==
    LET payload == [payloadOf("reconcile", id, text, now) EXCEPT !.user = members[m].name]
    IN /\ id \notin usedIds
       /\ usedIds' = usedIds \cup {id}
       /\ members' = [k \in MemberIds |->
                        [members[k] EXCEPT
                           !.messages = IF k = m THEN Append(@, entryOf(payload, TRUE)) ELSE @,
                           !.pendingRef = IF k = m THEN mapSet(@, id, payload) ELSE @,
                           !.inbox = Append(@, payload)]]
       /\ UNCHANGED <<base, queued, storage, client, messages, participants, pendingRef, wire,
                      now, lsMessages, lsParticipants, last, room, mounted, socket>>

\* onMessage in member m (index.tsx 305-332) for the oldest frame the relay
\* has sent it.
memberReceive(m) ==
    LET data == Head(members[m].inbox)
    IN /\ members[m].inbox # <<>>
       /\ members' = [members EXCEPT
                        ![m].messages = onMessageLog(@, "object", data),
                        ![m].pendingRef = onMessagePending(members[m].messages, @, "object", data),
                        ![m].inbox = Tail(@)]
       /\ UNCHANGED <<base, queued, storage, client, messages, participants, pendingRef, wire,
                      usedIds, now, lsMessages, lsParticipants, last, room, mounted, socket>>

MemberSend == \E m \in MemberIds, id \in Ids : memberSend(m, "hi", id)

MemberReceive == \E m \in MemberIds : memberReceive(m)

NextMembers == MemberSend \/ MemberReceive

SpecMembers == InitMembers /\ [][NextMembers]_vars

(* ------------- the reconciling client, a store that fails ------------ *)
\* What an earlier session left: a settled entry under the log key of
\* general, texts that do not parse under two other keys.
StoredEntry == entryOf(Env("add", "S", "yo", "Bob", "user", 0), FALSE)

\* The page before AppInner is mounted, with a store that works, one that is
\* full, or one the browser denies access to.
InitStorage ==
    /\ client = "reconcile"
    /\ messages = <<>>
    /\ participants = <<>>
    /\ pendingRef = <<>>
    /\ wire = {}
    /\ usedIds = {}
    /\ now = 0
    /\ lsMessages = [r \in Rooms |-> IF r = "general" THEN <<StoredEntry>> ELSE Corrupt]
    /\ lsParticipants = [r \in Rooms |-> IF r = "general" THEN Corrupt
                                          ELSE <<Participant("Bob", "c2", "online", 0)>>]
    /\ last = NoEvent
    /\ room = "general"
    /\ mounted = FALSE
    /\ socket = "connecting"
    /\ base = 1
    /\ queued = NoUpdate
    /\ storage \in {"ok", "full", "denied"}
    /\ members = NoMembers

NextStorage ==
    Mount \/ unmount \/ Goto \/ onOpen \/ SendFailed \/ DeliverOwn \/ HeartbeatTick

SpecStorage == InitStorage /\ [][NextStorage]_vars

(* ------------------ a log as long as the retention cap ---------------- *)
\* The payload of a text the local user sent at the start of the session and
\* that no inbound add has settled.
StalePayload == Env("add", "P", "hi", Name, "user", 0)

\* Entry k of a long log: the unsettled local send first, then adds of
\* another member, each with its own id; in the shape client c gives them.
LongEntry(c, k) ==
    IF c = "reconcile"
    THEN IF k = 1 THEN entryOf(StalePayload, TRUE)
         ELSE entryOf(Env("add", "m" \o ToString(k), "old", "Bob", "user", NoTime), FALSE)
    ELSE IF k = 1 THEN newMsgOf(StalePayload)
         ELSE newMsgOf(Env("add", "m" \o ToString(k), "old", "Bob", "user", NoTime))

LongLog(c, n) == [k \in 1..n |-> LongEntry(c, k)]

\* A session of the reconciling or the plain client whose log has grown to n
\* entries.
InitLongLog(n) ==
    /\ client \in {"reconcile", "plain"}
    /\ messages = LongLog(client, n)
    /\ participants = <<>>
    /\ pendingRef = IF client = "reconcile" THEN mapSet(<<>>, "P", StalePayload) ELSE <<>>
    /\ wire = {}
    /\ usedIds = {}
    /\ now = 0
    /\ lsMessages = [r \in Rooms |-> IF r = "general"
                                      THEN persistMessages(client, messages, <<>>) ELSE <<>>]
    /\ lsParticipants = [r \in Rooms |-> <<>>]
    /\ last = NoEvent
    /\ room = "general"
    /\ mounted = TRUE
    /\ socket = "open"
    /\ base = n
    /\ queued = NoUpdate
    /\ storage = "ok"
    /\ members = NoMembers

\* One entry short of the cap: the next appends reach and pass it.
InitRetention == InitLongLog(PersistCap - 1)

SpecRetention == InitRetention /\ [][NextSession]_vars

(* --------------- a log as long as the scan of reconcile --------------- *)
\* The reconciling client with an unsettled send followed by ScanWindow - 2
\* entries of another member: the entry is inside the scan until two more
\* entries are appended.
InitWindow == client = "reconcile" /\ InitLongLog(ScanWindow - 1)

\* One more local send with the text of the unsettled one.
SendAgain == send("hi", "X", FALSE)

\* Adds with that text under the local name and under another member's.
DeliverWindow ==
    \E msg \in ChatEnvelopes({"add"}, Ids, {"hi"}, Users, {"user"}) : receive("object", msg, FALSE)

NextWindow == SendAgain \/ DeliverWindow

SpecWindow == InitWindow /\ [][NextWindow]_vars

(* ------------------------ the roster of a room ------------------------ *)
InitRoster == client \in {"reconcile", "plain", "dedupe"} /\ InitCommon

\* Presence envelopes as the channel can carry them: status and id may be
\* absent.
PresenceEnvelopes ==
    {PresenceEnv(u, st, id, NoTime) :
        u \in Users, st \in Statuses \cup {NoField}, id \in {NoField, "c2"}}

\* Entries of a snapshot list: the status may be absent.
SnapshotEntries ==
    {Participant(u, "c2", st, NoTime) : u \in Users, st \in Statuses \cup {NoField}}

\* Snapshot lists of up to two entries; a list may name a user twice.
Snapshots ==
    {<<>>} \cup {<<a>> : a \in SnapshotEntries}
           \cup {<<a, b>> : a \in SnapshotEntries, b \in SnapshotEntries}

DeliverPresenceEnv == \E data \in PresenceEnvelopes : receive("object", data, FALSE)

DeliverSnapshot == \E list \in Snapshots : receive("object", ParticipantsEnv(list), FALSE)

\* sendPresence of the mounted client: the reconciling client sends its
\* stored clientId, the others a fresh nanoid(6).
LocalPresence ==
    \E st \in Statuses, id \in SessionIds :
        /\ client = "reconcile" => id = ClientId
        /\ sendPresence(st, id)

NextRoster == DeliverPresenceEnv \/ DeliverSnapshot \/ LocalPresence

SpecRoster == InitRoster /\ [][NextRoster]_vars

(* ------------- the roster of the reconciling client, in time --------- *)
\* Presences from the channel, heartbeats of the local client and the clock;
\* no snapshot.
NextHeartbeat == DeliverPresenceEnv \/ LocalPresence \/ Tick

SpecHeartbeat == InitReconcile /\ [][NextHeartbeat]_vars

(* -------------- the clients without a pending flag, relayed ------------ *)
InitRelay == client \in {"plain", "dedupe", "simple"} /\ InitCommon

SendChat == \E text \in Contents, id \in Ids, delivered \in BOOLEAN : send(text, id, delivered)

\* The channel delivers an add of another member.
DeliverBob == \E msg \in ChatEnvelopes({"add"}, Ids, Contents, {"Bob"}, {"user"}) : receive("object", msg, FALSE)

NextRelay == SendChat \/ Echo \/ DeliverBob

SpecRelay == InitRelay /\ [][NextRelay]_vars

(* ----------------- the clients that handle update, updated ----------- *)
\* The plain or the dedupe client with a log read from cc:messages:<room>
\* that a reconciling client wrote: its entry carries type, created_at and
\* pending besides id, content, user and role.
InitUpdate ==
    /\ client \in {"plain", "dedupe"}
    /\ messages = <<entryOf(Env("add", "S", "hi", Name, "user", 0), TRUE)>>
    /\ participants = <<>>
    /\ pendingRef = <<>>
    /\ wire = {}
    /\ usedIds = {"S"}
    /\ now = 0
    /\ lsMessages = [r \in Rooms |-> IF r = "general" THEN messages ELSE <<>>]
    /\ lsParticipants = [r \in Rooms |-> <<>>]
    /\ last = NoEvent
    /\ room = "general"
    /\ mounted = TRUE
    /\ socket = "open"
    /\ base = 1
    /\ queued = NoUpdate
    /\ storage = "ok"
    /\ members = NoMembers

\* Updates for the stored entry and for entries of this run, with and
\* without a content.
Updates == ChatEnvelopes({"update"}, {"S", "X", "Y"}, {"yo", NoField}, {"Bob"}, {"system"})

DeliverUpdates == \E msg \in Updates : receive("object", msg, FALSE)

DeliverAdds ==
    \E msg \in ChatEnvelopes({"add"}, {"X", "Y"}, {"hi"}, {"Bob"}, {"user"}) : receive("object", msg, FALSE)

NextUpdate == SendFailed \/ DeliverAdds \/ DeliverUpdates

SpecUpdate == InitUpdate /\ [][NextUpdate]_vars

(* ------------------ the simple client and the sync ------------------- *)
InitSimple == client = "simple" /\ InitCommon

\* What the server holds when it composes the sync: nothing, a message of
\* another member, or that and the text the local user sent as X.
SyncLists ==
    LET s == newMsgOf(Env("add", "S", "yo", "Bob", "user", NoTime))
        x == newMsgOf(payloadOf("simple", "X", "hi", 0))
    IN {<<>>, <<s>>, <<s, x>>}

DeliverSync == \E list \in SyncLists : receive("object", SyncEnv(list), FALSE)

NextSync == SendChat \/ Echo \/ DeliverBob \/ DeliverSync

SpecSync == InitSimple /\ [][NextSync]_vars

(* ----------------------- every client, every type ---------------------- *)
SendHi == \E id \in Ids : send("hi", id, FALSE)

DeliverAdd == \E msg \in ChatEnvelopes({"add"}, Ids, {"hi"}, {"Bob"}, {"user"}) : receive("object", msg, FALSE)

DeliverUpdate == \E msg \in ChatEnvelopes({"update"}, Ids, {"yo"}, {"Bob"}, {"system"}) : receive("object", msg, FALSE)

DeliverPresence ==
    \E u \in Users, st \in Statuses :
        receive("object", PresenceEnv(u, st, NoField, NoTime), FALSE)

DeliverUnknown == receive("object", [NoEnv EXCEPT !.type = "typing"], FALSE)

Next == SendHi \/ DeliverAdd \/ DeliverUpdate \/ DeliverPresence \/ DeliverUnknown

Spec == Init /\ [][Next]_vars

(* ------------------------------ properties ---------------------------- *)
ids(log) == {log[k].id : k \in 1..Len(log)}

NoDupIds(log) == \A a, b \in 1..Len(log) : a # b => log[a].id # log[b].id

\* The event just handled is an inbound add envelope.
AddApplied == last'.op = "receive" /\ last'.json = "object" /\ last'.msg.type = "add"

\* The event just handled is an inbound update envelope.
UpdateApplied == last'.op = "receive" /\ last'.json = "object" /\ last'.msg.type = "update"

\* Entry k of log is pending and has the user and content of msg.
PendingMatch(log, msg, k) ==
    log[k].pending /\ log[k].user = msg.user /\ log[k].content = msg.content

\* Entry k is the newest pending entry of log with the user and content of
\* msg, and lies among the ScanWindow newest entries.
NewestPendingMatch(log, msg, k) ==
    /\ PendingMatch(log, msg, k)
    /\ \A j \in (k + 1)..Len(log) : ~PendingMatch(log, msg, j)
    /\ Len(log) - k < ScanWindow

\* Entry e carries the id, content, user and role of envelope msg.
HasFieldsOf(e, msg) ==
    e.id = msg.id /\ e.content = msg.content /\ e.user = msg.user /\ e.role = msg.role

\* The number of roster entries with user name u.
CountUser(roster, u) == Cardinality({k \in 1..Len(roster) : roster[k].user = u})

NoDupUsers(roster) == \A a, b \in 1..Len(roster) : a # b => roster[a].user # roster[b].user

\* The event just handled is an inbound participants snapshot.
SnapshotApplied == last'.op = "receive" /\ last'.json = "object" /\ last'.msg.type = "participants"

\* The event just handled is an inbound presence envelope.
PresenceApplied == last'.op = "receive" /\ last'.json = "object" /\ last'.msg.type = "presence"

\* The log of room r: the state of the mounted component for its own room,
\* the stored log otherwise.
RoomLog(r) == IF mounted /\ r = room THEN messages ELSE lsMessages[r]

\* RoomLog(r) after the step.
RoomLogNext(r) == IF mounted' /\ r = room' THEN messages' ELSE lsMessages'[r]

\* C1: in the reconciling client, starting from an empty log, after any
\* sequence of local sends and inbound adds the log never holds two entries
\* with the same id.
C1_NoDuplicateIds == client = "reconcile" => NoDupIds(messages)

C1_Witness ==
    /\ client = "reconcile" /\ last.op = "receive" /\ last.rule = "exact"
    /\ Len(messages) >= 2
    /\ \E k \in 1..Len(messages) : messages[k].user = Name /\ messages[k].created_at # NoTime

\* C2: an inbound add whose id is the id of a pending entry leaves that entry
\* with pending = FALSE and the log length unchanged.
C2_ExactIdConfirms ==
    [][\A k \in 1..Len(messages) :
          (AddApplied /\ messages[k].id = last'.msg.id /\ messages[k].pending)
          => /\ Len(messages') = Len(messages)
             /\ messages'[k].id = last'.msg.id
             /\ ~messages'[k].pending]_vars

C2_Witness ==
    /\ last.op = "receive" /\ last.rule = "exact" /\ last.wasPending
    /\ \E k \in 1..Len(messages) : messages[k].id = last.msg.id /\ ~messages[k].pending

\* C3: an inbound add with an id that is not in the log and the user and
\* content of the newest matching pending entry, applied 2 seconds after
\* that entry was created, confirms the entry, gives it the envelope's
\* fields (its id becomes the envelope's) and keeps the log length.
C3_FuzzyResolvesAfter2s ==
    [][\A k \in 1..Len(messages) :
          (/\ AddApplied
           /\ last'.msg.id \notin ids(messages)
           /\ NewestPendingMatch(messages, last'.msg, k)
           /\ now - messages[k].created_at = 2)
          => /\ Len(messages') = Len(messages)
             /\ HasFieldsOf(messages'[k], last'.msg)
             /\ ~messages'[k].pending]_vars

C3_Witness ==
    /\ last.op = "receive" /\ last.rule = "fuzzy"
    /\ \E k \in 1..Len(messages) :
          /\ messages[k].id = last.msg.id
          /\ messages[k].created_at # NoTime
          /\ now - messages[k].created_at = 2

C5_UnmatchedAddAppends ==
    [][(/\ AddApplied
        /\ client = "reconcile"
        /\ last'.msg.id \notin ids(messages)
        /\ \A k \in 1..Len(messages) : ~PendingMatch(messages, last'.msg, k))
       => /\ Len(messages') = Len(messages) + 1
          /\ SubSeq(messages', 1, Len(messages)) = messages
          /\ HasFieldsOf(messages'[Len(messages')], last'.msg)
          /\ ~messages'[Len(messages')].pending]_vars

C5_Witness ==
    /\ client = "reconcile" /\ last.op = "receive" /\ last.rule = "append"
    /\ Len(messages) >= 2
    /\ messages[Len(messages)].id = last.msg.id
    /\ \E k \in 1..Len(messages) : messages[k].pending

\* C6 as stated: in the clients without a reconcile step, once the channel
\* has relayed a local send back, the log holds exactly one entry with the
\* id of that send.
C6_EchoLeavesOneEntry ==
    (client \in {"plain", "simple"} /\ last.op = "receive" /\ last.echo)
    => Cardinality({k \in 1..Len(messages) : messages[k].id = last.msg.id}) = 1

\* C7: in the dedupe-by-id client no sequence of sendChat calls and inbound
\* adds leaves two entries with the same id, and the relay of a local send
\* whose entry is in the log leaves the log as it was.
C7_DedupeById ==
    [][client = "dedupe"
       => /\ NoDupIds(messages')
          /\ (AddApplied /\ last'.echo /\ last'.msg.id \in ids(messages))
             => messages' = messages]_vars

C7_Witness ==
    /\ client = "dedupe" /\ last.op = "receive" /\ last.echo
    /\ Len(messages) >= 2
    /\ \E k \in 1..Len(messages) : messages[k].id = last.msg.id /\ messages[k].user = Name

\* C8 as stated: in the reconciling client an inbound update whose id is the
\* id of a log entry replaces that entry's content, user and role by the
\* envelope's and clears its pending flag.
C8_UpdateReplaces ==
    [][\A k \in 1..Len(messages) :
          (client = "reconcile" /\ UpdateApplied /\ messages[k].id = last'.msg.id)
          => /\ Len(messages') = Len(messages)
             /\ HasFieldsOf(messages'[k], last'.msg)
             /\ ~messages'[k].pending]_vars

\* C9: in every client an inbound update whose id matches no log entry
\* leaves the log as it was: same length, same entries.
C9_UnmatchedUpdateDropped ==
    [][(UpdateApplied /\ last'.msg.id \notin ids(messages)) => messages' = messages]_vars

C9_Witness ==
    /\ client = "dedupe" /\ last.op = "receive" /\ last.msg.type = "update"
    /\ Len(messages) >= 1
    /\ last.msg.id \notin ids(messages)

\* C10: in the reconciling and the dedupe-by-id client an inbound object of
\* an unrecognized type changes neither the log nor the roster.
C10_UnknownTypeIgnored ==
    [][(/\ client \in {"reconcile", "dedupe"}
        /\ last'.op = "receive" /\ last'.json = "object"
        /\ last'.msg.type \notin {"add", "update", "presence", "participants"})
       => messages' = messages /\ participants' = participants]_vars

C10_Witness ==
    /\ client \in {"reconcile", "dedupe"}
    /\ last.op = "receive" /\ last.msg.type = "typing"
    /\ Len(messages) >= 1 /\ Len(participants) >= 1

\* C11 as stated: in the plain (theme-toggle) client an inbound object of an
\* unrecognized or absent type changes neither the log nor the roster.
C11_PlainUnknownIgnored ==
    [][(/\ client = "plain"
        /\ last'.op = "receive" /\ last'.json = "object"
        /\ last'.msg.type \notin {"add", "update", "presence", "participants"})
       => messages' = messages /\ participants' = participants]_vars

\* C12: in the reconciling client a frame that is not JSON, is JSON but not
\* an object, or is an object without a type leaves the log, the roster and
\* the resend outbox as they were, and onMessage ends without throwing.
C12_MalformedFrameDropped ==
    [][(/\ client = "reconcile"
        /\ last'.op = "receive"
        /\ \/ last'.json \in {"invalid", "value"}
           \/ last'.json = "object" /\ last'.msg.type = NoField)
       => /\ messages' = messages
          /\ participants' = participants
          /\ pendingRef' = pendingRef
          /\ onMessageOutcome(last'.json, last'.msg) \in {"caught", "returned", "ignored"}]_vars

C12_Witness ==
    /\ client = "reconcile" /\ last.op = "receive"
    /\ last.json = "object" /\ last.msg.type = NoField
    /\ \E k \in 1..Len(messages) : messages[k].id = last.msg.id /\ messages[k].pending
    /\ last.msg.id \in DOMAIN pendingRef
    /\ Len(participants) >= 1

\* C13 as stated: in the reconciling client, after any sequence of inbound
\* presence envelopes, inbound snapshots and local heartbeats the roster
\* holds at most one entry per user name.
C13_Original == client = "reconcile" => NoDupUsers(participants)

\* C13 amended: presence envelopes and local heartbeats never add a second
\* entry for a user name, and a snapshot that names every user once leaves
\* one entry per user; only a snapshot that itself repeats a user name
\* (copied as it is) puts two entries of one user in the roster.
C13_OneEntryPerUserBarSnapshot ==
    [][client = "reconcile"
       => /\ ~SnapshotApplied
             => \A u \in Users : CountUser(participants', u) <= Max(1, CountUser(participants, u))
          /\ (SnapshotApplied /\ NoDupUsers(last'.msg.participants))
             => NoDupUsers(participants')]_vars

C13_Witness ==
    /\ client = "reconcile" /\ last.op = "receive" /\ last.msg.type = "presence"
    /\ Len(participants) = 2 /\ NoDupUsers(participants)
    /\ participants[1].user = last.msg.user

\* C14: applying the same inbound presence envelope a second time, right
\* after the first, leaves the roster as the first application left it.
C14_PresenceIdempotent ==
    [][(/\ PresenceApplied
        /\ last.op = "receive" /\ last.json = "object" /\ last.msg = last'.msg)
       => participants' = participants]_vars

C14_Witness ==
    /\ last.op = "receive" /\ last.msg.type = "presence" /\ last.again
    /\ Len(participants) >= 2
    /\ \E k \in 1..Len(participants) :
          participants[k].user = last.msg.user /\ participants[k].status = "offline"

\* C15 as stated: an inbound snapshot makes the roster equal to the given
\* list, entry by entry, with the given user, id, status and lastSeen.
C15_Original ==
    [][(SnapshotApplied /\ client \in {"reconcile", "plain", "dedupe"})
       => participants' = last'.msg.participants]_vars

\* C15 amended: an inbound snapshot replaces the roster by the given list,
\* same users in the same order with their given id and lastSeen, where an
\* entry keeps its given status and an entry without a status is stored as
\* online; nothing of the roster held before remains.
C15_SnapshotReplaces ==
    [][(SnapshotApplied /\ client \in {"reconcile", "plain", "dedupe"})
       => /\ Len(participants') = Len(last'.msg.participants)
          /\ \A k \in 1..Len(participants') :
                LET given == last'.msg.participants[k]
                IN /\ participants'[k].user = given.user
                   /\ participants'[k].id = given.id
                   /\ participants'[k].lastSeen = given.lastSeen
                   /\ participants'[k].status =
                         IF given.status = NoField THEN "online" ELSE given.status]_vars

C15_Witness ==
    /\ last.op = "receive" /\ last.msg.type = "participants"
    /\ Len(last.msg.participants) = 1
    /\ last.msg.participants[1].user = "Bob"
    /\ last.msg.participants[1].status = NoField
    /\ participants = <<Participant("Bob", "c2", "online", NoTime)>>

\* C16 as stated: in the reconciling client an inbound add applied a second
\* time, right after the application that settled it, leaves the log as the
\* first application left it.
C16_Original ==
    [][(/\ client = "reconcile" /\ AddApplied
        /\ last.op = "receive" /\ last.json = "object" /\ last.msg = last'.msg)
       => messages' = messages]_vars

\* C16 amended: the second application is a no-op when the envelope carries
\* an id, and also when an envelope without an id was settled by the exact
\* rule or by append; an envelope without an id that was settled by fuzzy
\* match is not found by id the second time and is settled again, on the
\* next pending entry of that user and content or by append.
C16_RepeatedAddNoOp ==
    [][(/\ client = "reconcile" /\ AddApplied
        /\ last.op = "receive" /\ last.json = "object" /\ last.msg = last'.msg)
       => /\ (last'.msg.id # NoField \/ last.rule \in {"exact", "append"})
             => messages' = messages
          /\ (last'.msg.id = NoField /\ last.rule = "fuzzy")
             => last'.rule \in {"fuzzy", "append"} /\ messages' # messages]_vars

C16_Witness ==
    /\ client = "reconcile" /\ last.op = "receive" /\ last.msg.type = "add"
    /\ last.again /\ last.msg.id # NoField
    /\ Len(messages) >= 2
    /\ \E k \in 1..Len(messages) :
          /\ messages[k].id = last.msg.id
          /\ messages[k].created_at # NoTime
          /\ ~messages[k].pending

\* C17: in the reconciling client a local text send appends exactly one
\* entry at the end of the log, with an id that is not in the log, the local
\* user's name, role user and pending = TRUE, and leaves the entries already
\* there as they were, whether or not the socket took the envelope.
C17_SendAppendsPending ==
    [][(client = "reconcile" /\ last'.op = "send")
       => /\ Len(messages') = Len(messages) + 1
          /\ SubSeq(messages', 1, Len(messages)) = messages
          /\ LET e == messages'[Len(messages')]
             IN /\ e.id = last'.msg.id /\ e.id \notin ids(messages) /\ e.id \notin usedIds
                /\ e.content = last'.msg.content
                /\ e.user = Name /\ e.role = "user" /\ e.pending]_vars

C17_Witness ==
    /\ client = "reconcile" /\ last.op = "send"
    /\ last.msg \notin wire
    /\ Len(messages) >= 2
    /\ messages[Len(messages)].id = last.msg.id /\ messages[Len(messages)].pending
    /\ \E k \in 1..(Len(messages) - 1) : ~messages[k].pending

\* C18: in the reconciling client a pending entry stays where it is in the
\* log of its room, unchanged and pending, over every step that is not the
\* application of an inbound add with its id or with its user and content:
\* no heartbeat, reconnect, room change, unmount or reload clears the flag
\* or removes the entry.
C18_PendingUntilMatched ==
    [][client = "reconcile"
       => \A r \in Rooms : \A k \in 1..Len(RoomLog(r)) :
             RoomLog(r)[k].pending
             => \/ /\ AddApplied /\ r = room
                   /\ \/ last'.msg.id = RoomLog(r)[k].id
                      \/ /\ last'.msg.user = RoomLog(r)[k].user
                         /\ last'.msg.content = RoomLog(r)[k].content
                \/ /\ Len(RoomLogNext(r)) >= k
                   /\ RoomLogNext(r)[k] = RoomLog(r)[k]]_vars

C18_Witness ==
    /\ client = "reconcile" /\ mounted /\ room = "general"
    /\ last.op = "open" /\ Len(participants) >= 1
    /\ \E k \in 1..Len(messages) :
          /\ messages[k].pending
          /\ messages[k].id \notin DOMAIN pendingRef
    /\ \E k \in 1..Len(lsMessages["math"]) : lsMessages["math"][k].pending

\* The event handled last sent a presence envelope of the local user with
\* status st to the socket.
Emitted(st) ==
    /\ last.msg.type = "presence" /\ last.msg.user = Name
    /\ last.msg.id = ClientId /\ last.msg.status = st

\* C19 as stated: in the reconciling client entering a room (mounting on
\* it, its socket opening) and every heartbeat tick send an online presence,
\* and leaving a room (the route changing to another room, the component
\* unmounting) and the page unloading send an offline presence.
C19_PresenceLifecycle ==
    client = "reconcile"
    => /\ last.op \in {"mount", "open"} => Emitted("online")
       /\ last.op = "presence" => Emitted("online") \/ Emitted("offline")
       /\ last.op \in {"goto", "unmount"} => Emitted("offline")

\* C20 as stated: in the reconciling client, right after every step that
\* sends a presence envelope of the local user (mount, heartbeat tick, socket
\* open, unload, unmount) the roster has an entry for the local user with
\* the status just sent.
C20_EmissionUpsertsRoster ==
    (/\ client = "reconcile"
     /\ last.op \in {"mount", "presence", "open", "unmount"}
     /\ last.msg.type = "presence")
    => \E k \in 1..Len(participants) :
          participants[k].user = Name /\ participants[k].status = last.msg.status

\* C21 as stated: in the reconciling client every step that leaves a room
\* (the route changes to another room, or the component unmounts) sends an
\* offline presence of the local user, and the heartbeat sends nothing once
\* the component is unmounted.
C21_LeaveEmitsOffline ==
    [][client = "reconcile"
       => /\ (mounted /\ (room' # room \/ ~mounted'))
             => /\ last'.msg.type = "presence" /\ last'.msg.user = Name
                /\ last'.msg.status = "offline"
          /\ ~mounted => last'.op # "presence"]_vars

C23_PendingNeverTrimmed ==
    (client = "reconcile" /\ mounted)
    => \A k \in 1..Len(messages) :
          messages[k].pending
          => \E j \in 1..Len(lsMessages[room]) : lsMessages[room][j] = messages[k]

\* C24 as stated: persistence is write-through and per room. After every
\* completed mutation the keys of the current room hold the log (its last 500
\* entries) and the roster in memory; entering a room sets the log and roster
\* to what is stored under its keys; and a route change, while the state in
\* memory is still that of the room left, writes nothing under the keys of
\* the room entered. The commit of a route change writes the log and roster
\* of the room left under the keys of the room entered.
C24_WriteThroughPerRoom ==
    [][(client = "reconcile" /\ mounted /\ mounted')
       => /\ ~queued'.set => /\ lsMessages'[room'] = sliceLast(messages', PersistCap)
                             /\ lsParticipants'[room'] = participants'
          /\ room' # room => /\ queued'.messages = lsMessages[room']
                             /\ queued'.participants = lsParticipants[room']
          /\ last'.op = "render" => /\ messages' = queued.messages
                                    /\ participants' = queued.participants
          /\ room' # room => /\ lsMessages'[room'] = lsMessages[room']
                             /\ lsParticipants'[room'] = lsParticipants[room']]_vars

\* C25: in the reconciling client a failing store is contained. While writes
\* throw, nothing stored changes and a send, an inbound add and a presence
\* emission change the log and roster in memory exactly as they do with a
\* working store; entering a room whose key cannot be read or parsed starts
\* it with the empty log, respectively the empty roster (to which a mount
\* adds the local user's own presence at once).
C25_StorageFailureContained ==
    [][client = "reconcile"
       => /\ storage # "ok"
             => /\ lsMessages' = lsMessages /\ lsParticipants' = lsParticipants
                /\ last'.op = "send" => messages' = Append(messages, entryOf(last'.msg, TRUE))
                /\ last'.op = "receive" => messages' = onMessageLog(messages, last'.json, last'.msg)
                /\ last'.op = "presence"
                      => participants' = upsert(participants,
                                                Participant(Name, ClientId, last'.msg.status, now))
          /\ (last'.op \in {"goto", "mount"} /\ (storage = "denied" \/ lsMessages[room'] = Corrupt))
             => messages' = <<>>
          /\ (last'.op = "goto" /\ (storage = "denied" \/ lsParticipants[room'] = Corrupt))
             => participants' = <<>>
          /\ (last'.op = "mount" /\ (storage = "denied" \/ lsParticipants[room'] = Corrupt))
             => participants' = <<Participant(Name, ClientId, "online", now)>>]_vars

\* The store denies access: the room started with the empty log although a
\* log is stored under its key, and an inbound add was applied in memory.
C25_Witness ==
    /\ client = "reconcile" /\ storage = "denied" /\ mounted /\ room = "general"
    /\ last.op = "receive" /\ last.msg.type = "add"
    /\ Len(messages) = 1 /\ messages[1].id = last.msg.id
    /\ lsMessages["general"] = <<StoredEntry>>

\* C26: in the reconciling client a local send and an inbound frame never
\* remove an entry and never move one: every entry of the log keeps its
\* position and is either untouched or, for an inbound add, merged with it in
\* place; the log grows by at most one entry, at its end, so adds appended as
\* new entries stand in the order they were delivered.
C26_LogOrderKept ==
    [][(client = "reconcile" /\ last'.op \in {"send", "receive"})
       => /\ Len(messages') \in {Len(messages), Len(messages) + 1}
          /\ \A k \in 1..Len(messages) :
                \/ messages'[k] = messages[k]
                \/ last'.op = "receive" /\ messages'[k] = Spread(messages[k], last'.msg)
          /\ (last'.op = "receive" /\ last'.rule = "append")
                => messages' = Append(messages, entryOf(last'.msg, FALSE))
          /\ last'.op = "send" => messages'[Len(messages')].id = last'.msg.id]_vars

\* A third entry was appended by an inbound add behind an add of another
\* member and a confirmed entry of the local user.
C26_Witness ==
    /\ client = "reconcile" /\ last.op = "receive" /\ last.rule = "append"
    /\ Len(messages) = 3 /\ messages[3].id = last.msg.id
    /\ messages[1].user = Name /\ ~messages[1].pending
    /\ messages[2].user = "Bob"

\* Room r's log holds a pending entry with this id.
PendingIn(id) ==
    \E r \in Rooms : \E k \in 1..Len(RoomLog(r)) : RoomLog(r)[k].id = id /\ RoomLog(r)[k].pending

\* C27 as stated: with a channel that opens in the end and relays every add
\* it is given, every entry a local send appended is confirmed in the end
\* (pending leads to not pending). A route change before the relay arrives
\* leaves the entry of the room left pending for ever.
C27_PendingLeadsToConfirmed ==
    \A id \in {"X", "Y"} : PendingIn(id) ~> ~PendingIn(id)

\* C28 as stated: the resend outbox of the reconciling client. A local send
\* puts its envelope in pendingRef; an inbound add that settles an entry by
\* its id or by the fuzzy rule removes the envelope of that entry; an open
\* hands the channel exactly the envelopes in pendingRef; and no open sends
\* the envelope of an entry the log shows as confirmed. After a route change
\* a relay can settle, by the fuzzy rule, an entry other than the one it was
\* sent for, and the envelope with the id the entry now carries stays in
\* pendingRef and is sent again by the next open.
C28_OutboxResend ==
    [][client = "reconcile"
       => /\ last'.op = "send" => pendingRef' = mapSet(pendingRef, last'.msg.id, last'.msg)
          /\ (AddApplied /\ last'.rule = "exact") => last'.msg.id \notin DOMAIN pendingRef'
          /\ (AddApplied /\ last'.rule = "fuzzy")
                => messages[fuzzyIndex(messages, last'.msg)].id \notin DOMAIN pendingRef'
          /\ last'.op = "open"
                => /\ wire' = wire \cup outbox(pendingRef)
                   /\ pendingRef' = pendingRef
                   /\ \A id \in DOMAIN pendingRef :
                         ~ \E k \in 1..Len(messages) : messages[k].id = id /\ ~messages[k].pending]_vars

\* The positions of log whose pending entry has the user and content of msg
\* and lies among the ScanWindow newest entries.
WindowMatches(log, msg) ==
    {k \in 1..Len(log) : PendingMatch(log, msg, k) /\ Len(log) - k < ScanWindow}

\* C29: the fuzzy rule of the reconciling client looks at the 40 newest
\* entries only. An inbound add whose id is not in the log leaves every
\* pending entry with 40 or more entries after it unchanged; it is appended
\* as a new confirmed entry when no pending entry with its user and content
\* lies among the 40 newest, and settles by the fuzzy rule when one does.
C29_FuzzyScansNewest40 ==
    [][(client = "reconcile" /\ AddApplied /\ findIndex(messages, last'.msg.id) = 0)
       => /\ \A k \in 1..Len(messages) :
                (messages[k].pending /\ Len(messages) - k >= ScanWindow)
                => messages'[k] = messages[k]
          /\ WindowMatches(messages, last'.msg) = {}
                => /\ last'.rule = "append"
                   /\ messages' = Append(messages, entryOf(last'.msg, FALSE))
          /\ WindowMatches(messages, last'.msg) # {} => last'.rule = "fuzzy"]_vars

\* The unsettled send has 40 entries after it; an add of the same user with
\* the same content and another id was appended behind them.
C29_Witness ==
    /\ client = "reconcile" /\ last.op = "receive" /\ last.rule = "append"
    /\ last.msg.user = Name /\ last.msg.content = "hi" /\ last.msg.id \notin {"P", NoField}
    /\ Len(messages) = ScanWindow + 2
    /\ messages[1] = entryOf(StalePayload, TRUE)
    /\ messages[Len(messages)] = entryOf(last.msg, FALSE)

\* C30: one inbound add changes at most one entry of the reconciling client's
\* log (one entry is replaced or one is appended). When the add carries an
\* id that is not in the log and two or more pending entries among the 40
\* newest have its user and content, the newest of them is confirmed with
\* the fields of the add and every other entry stays as it is; and an entry
\* that is confirmed and has another id than the add is never modified.
C30_OneEntryPerAdd ==
    [][(client = "reconcile" /\ AddApplied)
       => /\ Cardinality({k \in 1..Len(messages) : messages'[k] # messages[k]})
                + (Len(messages') - Len(messages)) <= 1
          /\ Len(messages') >= Len(messages)
          /\ ( /\ last'.msg.id # NoField
               /\ findIndex(messages, last'.msg.id) = 0
               /\ Cardinality(WindowMatches(messages, last'.msg)) >= 2 )
             => \E k \in WindowMatches(messages, last'.msg) :
                   /\ \A j \in WindowMatches(messages, last'.msg) : j <= k
                   /\ ~messages'[k].pending /\ HasFieldsOf(messages'[k], last'.msg)
                   /\ Len(messages') = Len(messages)
                   /\ \A j \in 1..Len(messages) : j # k => messages'[j] = messages[j]
          /\ \A k \in 1..Len(messages) :
                (~messages[k].pending /\ messages[k].id # last'.msg.id)
                => messages'[k] = messages[k]]_vars

\* Two pending entries with the same user and content lie among the 40
\* newest; the add settled on the newer one and the older one is still
\* pending.
C30_Witness ==
    /\ client = "reconcile" /\ last.op = "receive" /\ last.rule = "fuzzy"
    /\ Len(messages) = ScanWindow
    /\ messages[1] = entryOf(StalePayload, TRUE)
    /\ messages[1].user = last.msg.user /\ messages[1].content = last.msg.content
    /\ messages[ScanWindow].id = last.msg.id /\ ~messages[ScanWindow].pending
    /\ "X" \in usedIds /\ "X" \notin ids(messages)

\* C31: in the reconciling client the exact-id rule comes first. An inbound
\* add whose id is the id of a log entry settles by that rule: the entry with
\* the id is confirmed with the fields of the add, and every entry with
\* another id, a newer pending entry with the user and content of the add
\* included, is unchanged.
C31_ExactIdFirst ==
    [][(client = "reconcile" /\ AddApplied /\ findIndex(messages, last'.msg.id) # 0)
       => /\ last'.rule = "exact"
          /\ Len(messages') = Len(messages)
          /\ \A k \in 1..Len(messages) :
                IF messages[k].id = last'.msg.id
                THEN ~messages'[k].pending /\ HasFieldsOf(messages'[k], last'.msg)
                ELSE messages'[k] = messages[k]]_vars

\* The add settled on the entry with its id although a newer entry with its
\* user and content is pending; that entry is pending still.
C31_Witness ==
    /\ client = "reconcile" /\ last.op = "receive" /\ last.rule = "exact" /\ last.wasPending
    /\ \E i, k \in 1..Len(messages) :
          /\ i < k
          /\ messages[i].id = last.msg.id /\ ~messages[i].pending
          /\ messages[k].pending /\ messages[k].id # last.msg.id
          /\ messages[k].user = last.msg.user /\ messages[k].content = last.msg.content

\* C32: in the plain and the dedupe client an inbound update is a total
\* overwrite. Every entry with the id of the update becomes exactly { id,
\* content, user, role } of the envelope: no type, no created_at and no
\* pending flag of the old entry survive, and a content the envelope lacks
\* is lacking afterwards. The entry keeps its position; every other entry
\* and the length of the log are unchanged.
C32_UpdateOverwrites ==
    [][(client \in {"plain", "dedupe"} /\ UpdateApplied)
       => /\ Len(messages') = Len(messages)
          /\ \A k \in 1..Len(messages) :
                IF messages[k].id = last'.msg.id
                THEN /\ HasFieldsOf(messages'[k], last'.msg)
                     /\ messages'[k].type = NoField
                     /\ messages'[k].created_at = NoTime
                     /\ ~messages'[k].pending
                ELSE messages'[k] = messages[k]]_vars

\* The stored entry, which had a type, a timestamp and the pending flag, was
\* overwritten in place by an update without content; the entry behind it
\* is as it was.
C32_Witness ==
    /\ client \in {"plain", "dedupe"} /\ last.op = "receive" /\ last.msg.type = "update"
    /\ last.msg.id = "S" /\ last.msg.content = NoField
    /\ Len(messages) = 2
    /\ messages[1] = ChatEntry(NoField, "S", NoField, "Bob", "system", NoTime, FALSE)
    /\ messages[2].id = "X" /\ messages[2].content = "hi"

\* C33: in the reconciling client an entry only moves from pending to
\* confirmed. Over a local send, an inbound frame, a channel open or close
\* and a heartbeat, an entry that is confirmed stays confirmed at its
\* position, and an entry that is new in the log is pending only when the
\* step is a local send.
C33_PendingOnlyForward ==
    [][(client = "reconcile" /\ last'.op \in {"send", "receive", "open", "close", "presence"})
       => /\ Len(messages') >= Len(messages)
          /\ \A k \in 1..Len(messages) : ~messages[k].pending => ~messages'[k].pending
          /\ \A k \in (Len(messages) + 1)..Len(messages') :
                messages'[k].pending => last'.op = "send"]_vars

\* The channel opened again with a confirmed entry of the local user in the
\* log and a pending one behind it.
C33_Witness ==
    /\ client = "reconcile" /\ mounted /\ last.op = "open"
    /\ \E k, j \in 1..Len(messages) :
          /\ k < j
          /\ ~messages[k].pending /\ messages[k].user = Name
          /\ messages[j].pending /\ messages[j].id \in DOMAIN pendingRef

\* The ids of the pending entries of log.
pendingIds(log) == {log[k].id : k \in {j \in 1..Len(log) : log[j].pending}}

\* C34 as stated: in every state of the mounted reconciling client the
\* resend outbox and the log of the current room agree: the ids in
\* pendingRef are the ids of the pending entries of the log, and the
\* envelope kept under an id carries that id. A reload starts with an empty
\* pendingRef and a log whose stored pending entries are pending again; a
\* room switch keeps pendingRef and replaces the log.
C34_OutboxMatchesLog ==
    (client = "reconcile" /\ mounted)
    => /\ DOMAIN pendingRef = pendingIds(messages)
       /\ \A id \in DOMAIN pendingRef : pendingRef[id].id = id /\ pendingRef[id].type = "add"

\* C35 as stated: the reconciling client keeps rooms apart when it sends.
\* An add composed in a room has its entry in the log of that room, so an
\* open of the current room's channel hands over no envelope whose entry is
\* in the log of another room. pendingRef is not cleared by a route change,
\* and the open of the room entered sends what was composed in the room
\* left.
C35_OpenSendsOwnRoomOnly ==
    [][(client = "reconcile" /\ last'.op = "open")
       => \A id \in DOMAIN pendingRef : \A r \in Rooms \ {room} :
             /\ pendingRef[id] \in wire' => id \notin ids(RoomLog(r))]_vars

\* C36 as stated: in the reconciling client confirmation implies delivery.
\* An entry of a local send is confirmed, and an envelope leaves pendingRef,
\* only in a step that applies the relay of the add of that same send. An
\* add another client sent under the same display name with the same text
\* settles the entry by the fuzzy rule.
C36_ConfirmedOnlyByOwnRelay ==
    [][client = "reconcile"
       => /\ \A k \in 1..Len(messages) :
                (Len(messages') >= k /\ messages[k].pending /\ ~messages'[k].pending)
                => /\ last'.op = "receive" /\ last'.echo
                   /\ last'.msg.id = messages[k].id
          /\ \A id \in DOMAIN pendingRef :
                id \notin DOMAIN pendingRef'
                => last'.op = "receive" /\ last'.echo /\ last'.msg.id = id]_vars

\* The relay has nothing left to deliver and something was sent.
Quiescent == usedIds # {} /\ \A m \in MemberIds : members[m].inbox = <<>>

\* C37: two reconciling clients that stay connected to one room, over a
\* relay that sends every add to both in one order, converge. Once every
\* sent envelope has been delivered and applied, the two logs hold the same
\* ids, namely the ids sent, each once, no entry is pending and no envelope
\* is left in a pendingRef.
C37_MembersConverge ==
    Quiescent
    => \A m \in MemberIds :
          /\ ids(members[m].messages) = usedIds
          /\ ids(members[m].messages) = ids(members["a"].messages)
          /\ NoDupIds(members[m].messages)
          /\ \A k \in 1..Len(members[m].messages) : ~members[m].messages[k].pending
          /\ members[m].pendingRef = <<>>

\* Both clients carry the same name and sent the same text; everything is
\* delivered and the fuzzy rule has left the same three ids in the two logs
\* in different places.
C37_Witness ==
    /\ Quiescent
    /\ members["a"].name = members["b"].name
    /\ Len(members["a"].messages) = 3 /\ Len(members["b"].messages) = 3
    /\ \E k \in 1..3 : members["a"].messages[k].id # members["b"].messages[k].id

\* The step applies a presence of user u with status st to the roster: an
\* inbound presence envelope or a sendPresence of the local client.
AppliesPresence(u, st) ==
    \/ /\ PresenceApplied /\ last'.msg.user = u
       /\ st = IF last'.msg.status = NoField THEN "online" ELSE last'.msg.status
    \/ /\ last'.op = "presence" /\ u = Name /\ st = last'.msg.status

\* C38: the roster of the reconciling client under presences and heartbeats.
\* A presence of a user leaves exactly one entry of that user, with the
\* status of the presence (online when it carries none), and every entry of
\* another user as it was, at its place; so nobody is removed and an offline
\* presence only changes the entry of its user. A step that applies no
\* presence, the passing of time included, leaves the roster as it was.
C38_RosterLastWriteWins ==
    [][client = "reconcile"
       => /\ \A u \in Users, st \in Statuses :
                AppliesPresence(u, st)
                => /\ CountUser(participants', u) = 1
                   /\ participants'[findUser(participants', u)].status = st
                   /\ \A k \in 1..Len(participants) :
                         /\ participants'[k].user = participants[k].user
                         /\ participants[k].user # u => participants'[k] = participants[k]
                   /\ Len(participants') = Len(participants) + (1 - CountUser(participants, u))
          /\ (~PresenceApplied /\ last'.op # "presence") => participants' = participants]_vars

\* Twenty seconds after the last presence the roster still shows the other
\* member offline and the local user online.
C38_Witness ==
    /\ client = "reconcile" /\ last.op = "tick" /\ now = 20
    /\ Len(participants) = 2
    /\ \E k \in 1..2 : participants[k].user = "Bob" /\ participants[k].status = "offline"
    /\ \E k \in 1..2 : /\ participants[k].user = Name /\ participants[k].status = "online"
                         /\ participants[k].lastSeen = 0

\* C39 as stated: in the simple client a payload that is neither an add nor
\* a presence and carries a messages array sets the log to that array, and
\* a message the user sent before, whose add the channel has not relayed
\* yet, is still in the log afterwards. The sync replaces the log, so a
\* message the array lacks is gone.
C39_SyncKeepsOptimistic ==
    [][(/\ client = "simple" /\ last'.op = "receive"
        /\ last'.msg.type \notin {"add", "presence"} /\ hasMessages(last'.msg))
       => /\ messages' = last'.msg.messages
          /\ \A k \in 1..Len(messages) :
                (\E p \in wire : p.id = messages[k].id)
                => messages[k].id \in ids(messages')]_vars

====
